---- MODULE Spec2Model ----
(***************************************************************************)
(* Model of selenium_side_runner/loader.py (the .side project loader) and  *)
(* of src/logger_config.py (setup_logging and the log_method_call          *)
(* decorator).                                                             *)
(*                                                                         *)
(* Python values are tagged records: JSON null / Python None is Null, a    *)
(* string is Str(s), a number Num(n), a boolean Bool(b), a list List(seq)  *)
(* and a dict Dict(f) where f is a function whose DOMAIN is the set of     *)
(* keys the dict holds.  A computation that may raise returns Ok(v) or     *)
(* Raise(e).                                                               *)
(***************************************************************************)
EXTENDS Integers, Sequences, FiniteSets, TLC

VARIABLES
    call,         \* loader: the function called and its arguments
    ret,          \* loader: what the call returned or raised
    wcall,        \* log_method_call: the decorated function and one call of it
    invocations,  \* log_method_call: the calls the original function received
    wret,         \* log_method_call: what the wrapper returned or raised
    records,      \* log_method_call: the log records the wrapper emitted
    root,         \* logging: the root logger (level, propagate, handlers)
    loggers,      \* logging: the named library loggers
    callNo,       \* logging: the number of setup_logging calls made
    lastCall      \* logging: how the most recent operation on the root logger ended

loaderVars == <<call, ret>>
wrapVars == <<wcall, invocations, wret, records>>
logVars == <<root, loggers, callNo, lastCall>>

vars == <<call, ret, wcall, invocations, wret, records, root, loggers, callNo, lastCall>>

----------------------------------------------------------------------------
(* Python values *)

Absent == [t |-> "absent"]
Null == [t |-> "null"]
Str(s) == [t |-> "str", s |-> s]
Num(n) == [t |-> "num", n |-> n]
Bool(b) == [t |-> "bool", b |-> b]
List(items) == [t |-> "list", items |-> items]
Dict(f) == [t |-> "dict", f |-> f]

\* A dict literal: the keys of `full` bound to Absent are left out.
MkDict(full) == Dict([k \in {x \in DOMAIN full : full[x] # Absent} |-> full[k]])

Ok(v) == [ok |-> TRUE, v |-> v]
Raise(e) == [ok |-> FALSE, exc |-> e]

\* Python truthiness of a value.
Truthy(x) ==
    CASE x.t = "null" -> FALSE
      [] x.t = "str" -> x.s # ""
      [] x.t = "num" -> x.n # 0
      [] x.t = "bool" -> x.b
      [] x.t = "list" -> x.items # <<>>
      [] x.t = "dict" -> DOMAIN x.f # {}

\* a or b
Or(a, b) == IF Truthy(a) THEN a ELSE b

\* hasattr(x, "get"): of the JSON types only dict has a .get method.
HasGet(x) == x.t = "dict"

\* d.get(key, default) on a dict d.
Get(d, key, default) == IF key \in DOMAIN d.f THEN d.f[key] ELSE default

\* The characters of the strings the inputs hold.
CharsOf(s) ==
    CASE s = "" -> <<>>
      [] s = "t1" -> <<"t", "1">>
      [] s = "x" -> <<"x">>

\* The order in which a parsed document's keys are iterated (document order).
KeyOrder == <<"id", "name", "url", "command", "target", "value", "comment",
              "commands", "tests", "suites", "persistSession", "parallel", "timeout">>

KeysOf(d) == SelectSeq(KeyOrder, LAMBDA k : k \in DOMAIN d.f)

\* iter(x): the sequence a for loop or list() draws from x, or TypeError.
Iter(x) ==
    CASE x.t = "list" -> Ok(x.items)
      [] x.t = "str" -> Ok([i \in 1..Len(CharsOf(x.s)) |-> Str(CharsOf(x.s)[i])])
      [] x.t = "dict" -> Ok([i \in 1..Len(KeysOf(x)) |-> Str(KeysOf(x)[i])])
      [] OTHER -> Raise("TypeError")

\* hash(x) succeeds: lists and dicts are unhashable.
Hashable(x) == x.t \notin {"list", "dict"}

\* A list comprehension over the results rs of building each element in
\* order: the first exception raised ends it.
Comprehension(rs) ==
    LET bad == {i \in 1..Len(rs) : ~rs[i].ok}
    IN  IF bad # {}
        THEN rs[CHOOSE i \in bad : \A j \in bad : i <= j]
        ELSE Ok([i \in 1..Len(rs) |-> rs[i].v])

----------------------------------------------------------------------------
(* selenium_side_runner/loader.py *)

\* _build_command with target taken as id and command are: raw.get("target", "").
_build_command_TargetNotCollapsed(raw) ==
    IF ~HasGet(raw) THEN Raise("AttributeError")
    ELSE Ok([id |-> Get(raw, "id", Str("")),
             command |-> Get(raw, "command", Str("")),
             target |-> Get(raw, "target", Str("")),
             value |-> Or(Get(raw, "value", Str("")), Str("")),
             comment |-> Get(raw, "comment", Null)])

_build_command(raw) ==
    IF ~HasGet(raw) THEN Raise("AttributeError")
    ELSE Ok([id |-> Get(raw, "id", Str("")),
             command |-> Get(raw, "command", Str("")),
             target |-> Or(Get(raw, "target", Str("")), Str("")),
             value |-> Or(Get(raw, "value", Str("")), Str("")),
             comment |-> Get(raw, "comment", Null)])

\* _build_test that collects the commands in reverse.
_build_test_Reversed(raw) ==
    IF ~HasGet(raw) THEN Raise("AttributeError")
    ELSE LET it == Iter(Get(raw, "commands", List(<<>>)))
         IN  IF ~it.ok THEN it
             ELSE LET commands == Comprehension([i \in 1..Len(it.v) |-> _build_command(it.v[i])])
                  IN  IF ~commands.ok THEN commands
                      ELSE Ok([id |-> Get(raw, "id", Str("")),
                               name |-> Get(raw, "name", Str("")),
                               commands |-> [i \in 1..Len(commands.v) |->
                                                commands.v[Len(commands.v) + 1 - i]]])

_build_test(raw) ==
    IF ~HasGet(raw) THEN Raise("AttributeError")
    ELSE LET it == Iter(Get(raw, "commands", List(<<>>)))
         IN  IF ~it.ok THEN it
             ELSE LET commands == Comprehension([i \in 1..Len(it.v) |-> _build_command(it.v[i])])
                  IN  IF ~commands.ok THEN commands
                      ELSE Ok([id |-> Get(raw, "id", Str("")),
                               name |-> Get(raw, "name", Str("")),
                               commands |-> commands.v])

\* _build_suite that keeps the first occurrence of each identifier only.
_build_suite_Deduplicated(raw) ==
    IF ~HasGet(raw) THEN Raise("AttributeError")
    ELSE LET it == Iter(Get(raw, "tests", List(<<>>)))
         IN  IF ~it.ok THEN it
             ELSE Ok([id |-> Get(raw, "id", Str("")),
                      name |-> Get(raw, "name", Str("")),
                      tests |-> LET first == {i \in 1..Len(it.v) :
                                                 \A j \in 1..(i - 1) : it.v[j] # it.v[i]}
                                IN  SelectSeq([i \in 1..Len(it.v) |->
                                                  IF i \in first THEN it.v[i] ELSE Absent],
                                              LAMBDA x : x # Absent),
                      persist_session |-> Truthy(Get(raw, "persistSession", Bool(FALSE))),
                      parallel |-> Truthy(Get(raw, "parallel", Bool(FALSE))),
                      timeout |-> Get(raw, "timeout", Null)])

_build_suite(raw) ==
    IF ~HasGet(raw) THEN Raise("AttributeError")
    ELSE LET it == Iter(Get(raw, "tests", List(<<>>)))
         IN  IF ~it.ok THEN it
             ELSE Ok([id |-> Get(raw, "id", Str("")),
                      name |-> Get(raw, "name", Str("")),
                      tests |-> it.v,
                      persist_session |-> Truthy(Get(raw, "persistSession", Bool(FALSE))),
                      parallel |-> Truthy(Get(raw, "parallel", Bool(FALSE))),
                      timeout |-> Get(raw, "timeout", Null)])

\* A test map in which the first test under an id stays.
BuildTestMap_FirstWins(tests) ==
    LET bad == {i \in 1..Len(tests) : ~Hashable(tests[i].id)}
        ids == {tests[i].id : i \in 1..Len(tests)}
        First(k) == CHOOSE i \in 1..Len(tests) :
                        /\ tests[i].id = k
                        /\ \A j \in 1..Len(tests) : tests[j].id = k => i <= j
    IN  IF bad # {} THEN Raise("TypeError")
        ELSE Ok([k \in ids |-> tests[First(k)]])

\* {test.id: test for test in tests}: a later test replaces an earlier one
\* under the same id; an unhashable id raises TypeError.
BuildTestMap(tests) ==
    LET bad == {i \in 1..Len(tests) : ~Hashable(tests[i].id)}
        ids == {tests[i].id : i \in 1..Len(tests)}
        Last(k) == CHOOSE i \in 1..Len(tests) :
                       /\ tests[i].id = k
                       /\ \A j \in 1..Len(tests) : tests[j].id = k => j <= i
    IN  IF bad # {} THEN Raise("TypeError")
        ELSE Ok([k \in ids |-> tests[Last(k)]])

\* A name resolution that passes over default_name.
ProjectName_NoDefault(raw_project, default_name) ==
    Or(Get(raw_project, "name", Null), Str("Unnamed Project"))

\* raw_project.get("name") or default_name or "Unnamed Project"
ProjectName(raw_project, default_name) ==
    Or(Or(Get(raw_project, "name", Null), default_name), Str("Unnamed Project"))

\* A type check that lets every argument through to the parser.
IsInstanceStr_Unchecked(json_payload) == TRUE

\* isinstance(json_payload, str)
IsInstanceStr(json_payload) == json_payload.pytype = "str"

\* json.loads: parses str and bytes, rejects any other type with TypeError
\* and text that is not JSON with JSONDecodeError.
json_loads(json_payload) ==
    IF json_payload.pytype \notin {"str", "bytes"} THEN Raise("TypeError")
    ELSE IF ~json_payload.wellformed THEN Raise("JSONDecodeError")
    ELSE Ok(json_payload.doc)

load_side_project(json_payload, default_name) ==
    IF ~IsInstanceStr(json_payload) THEN Raise("TypeError")
    ELSE LET parsed == json_loads(json_payload) IN
    IF ~parsed.ok THEN parsed
    ELSE LET raw_project == parsed.v IN
    IF ~HasGet(raw_project) THEN Raise("AttributeError")
    ELSE LET project_name == ProjectName(raw_project, default_name)
    rawTests == Iter(Get(raw_project, "tests", List(<<>>))) IN
    IF ~rawTests.ok THEN rawTests
    ELSE LET tests == Comprehension([i \in 1..Len(rawTests.v) |-> _build_test(rawTests.v[i])]) IN
    IF ~tests.ok THEN tests
    ELSE LET test_map == BuildTestMap(tests.v) IN
    IF ~test_map.ok THEN test_map
    ELSE LET rawSuites == Iter(Get(raw_project, "suites", List(<<>>))) IN
    IF ~rawSuites.ok THEN rawSuites
    ELSE LET suites == Comprehension([i \in 1..Len(rawSuites.v) |-> _build_suite(rawSuites.v[i])]) IN
    IF ~suites.ok THEN suites
    ELSE Ok([id |-> Get(raw_project, "id", Str("")),
    name |-> project_name,
    url |-> Get(raw_project, "url", Null),
    tests |-> test_map.v,
    suites |-> suites.v])
----------------------------------------------------------------------------
(* src/logger_config.py: log_method_call *)

\* The longest repr of a result that is logged whole, and the length of the
\* "... (truncated)" mark that follows a cut one.
TruncateAt == 200
TruncatedMarkLen == 15

\* The exceptions a raising __repr__ and a raising __str__ end in.
ReprError == [type |-> "RuntimeError", is_exception |-> TRUE, str_raises |-> FALSE]
StrError == [type |-> "KeyError", is_exception |-> TRUE, str_raises |-> FALSE]

\* func(*args, **kwargs) as the original function receives it.
Invocation(c) == [args |-> c.args, kwargs |-> c.kwargs]

\* repr(arg) for arg in args, then repr(v) for k, v in kwargs.items(): some
\* __repr__ raises.
ParamsReprRaises(c) ==
    \/ \E i \in 1..Len(c.args) : c.args[i].repr_raises
    \/ \E i \in 1..Len(c.kwargs) : c.kwargs[i].v.repr_raises

\* result_str after the cut at 200 characters.
ResultStrLen(v) ==
    IF v.repr_len > TruncateAt THEN TruncateAt + TruncatedMarkLen ELSE v.repr_len

\* The body shared by wrapper and async_wrapper (the one awaits the call the
\* other makes): what the wrapper returns or raises, the calls the original
\* function received, and the records logged.
TracedCall(c) ==
    IF ~c.debug
    THEN [ret |-> c.func.body, invocations |-> <<Invocation(c)>>, records |-> <<>>]
    ELSE IF ParamsReprRaises(c)
    THEN [ret |-> Raise(ReprError), invocations |-> <<>>, records |-> <<>>]
    ELSE LET entered == [msg |-> "enter", len |-> 0]
             body == c.func.body
         IN  IF body.ok
             THEN IF body.v.repr_raises
                  THEN [ret |-> Raise(ReprError), invocations |-> <<Invocation(c)>>,
                        records |-> <<entered, [msg |-> "raised", len |-> 0]>>]
                  ELSE [ret |-> body, invocations |-> <<Invocation(c)>>,
                        records |-> <<entered, [msg |-> "exit", len |-> ResultStrLen(body.v)]>>]
             ELSE IF ~body.exc.is_exception
                  THEN [ret |-> body, invocations |-> <<Invocation(c)>>,
                        records |-> <<entered>>]
                  ELSE IF body.exc.str_raises
                  THEN [ret |-> Raise(StrError), invocations |-> <<Invocation(c)>>,
                        records |-> <<entered>>]
                  ELSE [ret |-> body, invocations |-> <<Invocation(c)>>,
                        records |-> <<entered, [msg |-> "raised", len |-> 0]>>]

wrapper(c) == TracedCall(c)

async_wrapper(c) == TracedCall(c)

\* hasattr(func, "__code__") and func.__code__.co_flags & 0x80
IsCoroutineFunction(func) == func.has_code /\ (func.co_flags \div 128) % 2 = 1

\* log_method_call(func): the wrapper the decorator returns.
log_method_call(func) == IF IsCoroutineFunction(func) THEN "async_wrapper" ELSE "wrapper"

----------------------------------------------------------------------------
(* src/logger_config.py: setup_logging *)

DEBUG == 10
INFO == 20
WARNING == 30

\* str.upper() of the level names the environment holds.
Upper(s) ==
    CASE s = "debug" -> "DEBUG"
      [] s = "info" -> "INFO"
      [] s = "basic_format" -> "BASIC_FORMAT"
      [] s = "verbose" -> "VERBOSE"
      [] s = "loud" -> "LOUD"
      [] OTHER -> s

\* getattr(logging, name, default): the upper-case attributes of the logging
\* module are the level numbers and the string BASIC_FORMAT.
LoggingAttr(name, default) ==
    CASE name = "CRITICAL" -> [int |-> TRUE, n |-> 50]
      [] name = "FATAL" -> [int |-> TRUE, n |-> 50]
      [] name = "ERROR" -> [int |-> TRUE, n |-> 40]
      [] name = "WARNING" -> [int |-> TRUE, n |-> WARNING]
      [] name = "WARN" -> [int |-> TRUE, n |-> WARNING]
      [] name = "INFO" -> [int |-> TRUE, n |-> INFO]
      [] name = "DEBUG" -> [int |-> TRUE, n |-> DEBUG]
      [] name = "NOTSET" -> [int |-> TRUE, n |-> 0]
      [] name = "BASIC_FORMAT" -> [int |-> FALSE, n |-> 0]
      [] OTHER -> [int |-> TRUE, n |-> default]

\* os.getenv(key, default)
Getenv(env, key, default) == IF key \in DOMAIN env THEN env[key] ELSE default

\* log_dir.mkdir(parents=True, exist_ok=True) succeeds: not where a file is.
MkdirOk(dir) == dir # "/etc/passwd"

\* logging.FileHandler(log_dir / "api.log") opens the file: not in a
\* directory that cannot be written.
OpenOk(dir) == dir # "/ro"

\* logging.getLogger(name) is the root logger.
IsRootName(name) == name = ""

DefaultLibs == {"selenium", "urllib3", "httpcore", "httpx", "asyncio"}
LibNames == DefaultLibs \cup {"myapp"}

\* The names LOG_LEVEL_LIBRARIES configures: the items that hold a colon.
ConfiguredLibs(items) == {items[i].name : i \in {j \in 1..Len(items) : items[j].colon}}

\* The loop over LOG_LEVEL_LIBRARIES: each item "name:LEVEL" sets the level of
\* getLogger(name); an item whose level names no level number raises.
RECURSIVE ApplyLibLevels(_, _)
ApplyLibLevels(st, items) ==
    IF items = <<>> THEN st
    ELSE LET item == Head(items)
             lvl == LoggingAttr(Upper(item.level), WARNING)
         IN  IF ~item.colon THEN ApplyLibLevels(st, Tail(items))
             ELSE IF ~lvl.int THEN [st EXCEPT !.raised = "ValueError"]
             ELSE IF IsRootName(item.name)
             THEN ApplyLibLevels([st EXCEPT !.root.level = lvl.n, !.root.propagate = TRUE],
                                 Tail(items))
             ELSE ApplyLibLevels(
                      [st EXCEPT !.loggers[item.name] = [level |-> lvl.n, propagate |-> TRUE]],
                      Tail(items))

\* The loop over default_lib_levels: WARNING for each library not configured.
ApplyDefaultLibLevels(st, items) ==
    [st EXCEPT !.loggers =
        [n \in DOMAIN st.loggers |->
            IF n \in DefaultLibs /\ n \notin ConfiguredLibs(items)
            THEN [level |-> WARNING, propagate |-> TRUE]
            ELSE st.loggers[n]]]

\* setup_logging(log_dir) in the environment env, as the n-th call, from the
\* loggers' state st = [root, loggers, raised].
setup_logging(st, log_dir, env, n) ==
    LET dir == IF log_dir = "None" THEN Getenv(env, "LOG_DIR", "./logs/api-server") ELSE log_dir
        log_level == Upper(Getenv(env, "LOG_LEVEL", "INFO"))
        log_level_value == LoggingAttr(log_level, INFO)
        lib_levels == Getenv(env, "LOG_LEVEL_LIBRARIES", <<>>)
        file_handler == [cls |-> "FileHandler", level |-> log_level_value.n,
                         created_by |-> n, dir |-> dir]
        console_handler == [cls |-> "StreamHandler", level |-> log_level_value.n,
                            created_by |-> n, dir |-> ""]
    IN  IF ~MkdirOk(dir) THEN [st EXCEPT !.raised = "FileExistsError"]
        ELSE IF ~log_level_value.int THEN [st EXCEPT !.raised = "ValueError"]
        ELSE LET levelled == [st EXCEPT !.root.level = log_level_value.n]
             IN  IF ~OpenOk(dir) THEN [levelled EXCEPT !.raised = "PermissionError"]
                 ELSE LET handled == [levelled EXCEPT
                                         !.root.handlers = <<file_handler, console_handler>>]
                          configured == ApplyLibLevels(handled, lib_levels)
                      IN  IF configured.raised # "" THEN configured
                          ELSE ApplyDefaultLibLevels(configured, lib_levels)

----------------------------------------------------------------------------
(* The inputs: bounded sets of raw records and payloads *)

MaxCommands == 2
MaxTests == 2
MaxSuites == 2
MaxSuiteTests == 2

SeqsUpTo(S, n) == UNION {[1..k -> S] : k \in 0..n}

\* Raw command records: every combination of the five keys.
RawCommands ==
    {MkDict([id |-> i, command |-> c, target |-> tg, value |-> v, comment |-> cm]) :
        i \in {Absent, Null, Str("c1")},
        c \in {Absent, Str("open")},
        tg \in {Absent, Null, Str(""), Str("x"), Num(0)},
        v \in {Absent, Null, Str(""), Str("x"), Bool(FALSE)},
        cm \in {Absent, Str("note")}}

\* The commands the raw tests are built from.
CommandPool ==
    {MkDict([id |-> Absent, command |-> Absent, target |-> Absent, value |-> Absent]),
     MkDict([id |-> Str("c1"), command |-> Str("open"), target |-> Str("x"), value |-> Null]),
     MkDict([id |-> Str("c2"), command |-> Str("click"), target |-> Str(""), value |-> Str("x")])}

RawTests ==
    {MkDict([id |-> i, name |-> n, commands |-> cs]) :
        i \in {Absent, Null, Str(""), Str("t1"), Str("t2")},
        n \in {Absent, Str("A"), Str("B")},
        cs \in {Absent} \cup {List(q) : q \in SeqsUpTo(CommandPool, MaxCommands)}}

RawSuites ==
    {MkDict([id |-> i, name |-> n, tests |-> ts, persistSession |-> ps,
             parallel |-> pl, timeout |-> tm]) :
        i \in {Absent, Null, Str("s1")},
        n \in {Absent, Str("S")},
        ts \in {Absent} \cup
               {List(q) : q \in SeqsUpTo({Str("t1"), Str("t2"), Str("missing")}, MaxSuiteTests)},
        ps \in {Absent, Bool(TRUE), Bool(FALSE), Num(0)},
        pl \in {Absent, Bool(TRUE), Null},
        tm \in {Absent, Null, Num(30)}}

\* The tests and suites the raw projects are built from.
TestPool ==
    {MkDict([id |-> i, name |-> n, commands |-> cs]) :
        i \in {Absent, Null, Str("t1"), Str("t2")},
        n \in {Str("A"), Str("B")},
        cs \in {Absent,
                List(<<MkDict([id |-> Str("c1"), command |-> Str("open"),
                               target |-> Str("x"), value |-> Null])>>)}}

SuitePool ==
    {MkDict([id |-> Str("s1"), name |-> Str("S"), tests |-> ts]) :
        ts \in {Absent} \cup
               {List(q) : q \in SeqsUpTo({Str("t1"), Str("missing")}, MaxSuiteTests)}}

OneTest == MkDict([id |-> Str("t1"), name |-> Str("A"), commands |-> List(<<>>)])
OtherTest == MkDict([id |-> Str("t2"), name |-> Str("B"), commands |-> List(<<>>)])
OneSuite == MkDict([id |-> Str("s1"), name |-> Str("S"),
                    tests |-> List(<<Str("t1"), Str("missing")>>)])

Project(i, n, u, ts, ss) == MkDict([id |-> i, name |-> n, url |-> u, tests |-> ts, suites |-> ss])

\* Projects that vary the scalar fields.
HeaderProjects ==
    {Project(i, n, u, ts, ss) :
        i \in {Absent, Null, Str("p1")},
        n \in {Absent, Null, Str(""), Str("P")},
        u \in {Absent, Null, Str("http://h")},
        ts \in {Absent, List(<<OneTest>>)},
        ss \in {Absent, List(<<OneSuite>>)}}

\* Projects that vary the tests list.
TestProjects ==
    {Project(Str("p1"), Str("P"), Absent, List(q), ss) :
        q \in SeqsUpTo(TestPool, MaxTests), ss \in {Absent, List(<<OneSuite>>)}}

\* Projects that vary the suites list.
SuiteProjects ==
    {Project(Str("p1"), Str("P"), Absent, ts, List(q)) :
        q \in SeqsUpTo(SuitePool, MaxSuites),
        ts \in {Absent, List(<<OneTest>>), List(<<OneTest, OtherTest>>)}}

\* Well-formed JSON documents whose values have other types than the
\* loader's annotations name.
OddDocuments ==
    {List(<<>>), Null, Num(0), Str("x"), Bool(TRUE)} \cup
    {Project(Absent, Absent, Absent, ts, Absent) :
        ts \in {Null, Num(0), Str(""), Str("x"), List(<<Str("x")>>), List(<<Null>>),
                List(<<MkDict([id |-> List(<<>>)])>>),
                List(<<MkDict([id |-> Num(0)])>>),
                List(<<MkDict([commands |-> Null])>>),
                List(<<MkDict([commands |-> List(<<Str("x")>>)])>>)}} \cup
    {Project(Absent, Absent, Absent, Absent, ss) :
        ss \in {Null, Num(0), List(<<Str("x")>>),
                List(<<MkDict([tests |-> Null])>>),
                List(<<MkDict([tests |-> Num(0)])>>),
                List(<<MkDict([tests |-> Str("t1")])>>)}} \cup
    {Project(Absent, n, Absent, Absent, Absent) : n \in {Num(0), Num(5), List(<<>>)}}

Documents == HeaderProjects \cup TestProjects \cup SuiteProjects \cup OddDocuments

\* The argument of load_side_project: a str holding a JSON document or text
\* that is not JSON, bytes holding either, or an already parsed document.
Text(d) == [pytype |-> "str", wellformed |-> TRUE, doc |-> d]
NotJson == [pytype |-> "str", wellformed |-> FALSE, doc |-> Null]
Bytes(d) == [pytype |-> "bytes", wellformed |-> TRUE, doc |-> d]
BytesNotJson == [pytype |-> "bytes", wellformed |-> FALSE, doc |-> Null]
Parsed(d) == [pytype |-> "dict", wellformed |-> TRUE, doc |-> d]

DefaultNames == {Null, Str(""), Str("Fallback")}

LoadCalls ==
    {[fn |-> "load_side_project", arg |-> Text(d), default_name |-> dn] :
        d \in HeaderProjects, dn \in DefaultNames} \cup
    {[fn |-> "load_side_project", arg |-> Text(d), default_name |-> Null] :
        d \in Documents} \cup
    {[fn |-> "load_side_project", arg |-> p, default_name |-> dn] :
        p \in {NotJson, BytesNotJson} \cup
              {Bytes(d) : d \in {Project(Absent, Absent, Absent, Absent, Absent),
                                 Project(Str("p1"), Str("P"), Absent, List(<<OneTest>>), Absent)}} \cup
              {Parsed(d) : d \in {Project(Absent, Absent, Absent, Absent, Absent),
                                  Project(Str("p1"), Str("P"), Absent, List(<<OneTest>>), Absent),
                                  List(<<>>)}},
        dn \in DefaultNames}

Calls ==
    LoadCalls \cup
    {[fn |-> "_build_command", arg |-> r, default_name |-> Null] : r \in RawCommands} \cup
    {[fn |-> "_build_test", arg |-> r, default_name |-> Null] : r \in RawTests} \cup
    {[fn |-> "_build_suite", arg |-> r, default_name |-> Null] : r \in RawSuites}

----------------------------------------------------------------------------
(* The loader's state machine: one call, then its return or its exception *)

Pending == [ok |-> FALSE, exc |-> "pending"]
WrapPending == [ok |-> FALSE, exc |-> [type |-> "pending", is_exception |-> FALSE, str_raises |-> FALSE]]

\* The variables of the parts a specification leaves alone.
NoCall == [fn |-> "none"]
LoaderIdle == call = NoCall /\ ret = Pending
WrapIdle == wcall = NoCall /\ invocations = <<>> /\ wret = WrapPending /\ records = <<>>
LogIdle == root = NoCall /\ loggers = NoCall /\ callNo = 0 /\ lastCall = "none"

Init ==
    /\ call \in Calls
    /\ ret = Pending
    /\ WrapIdle /\ LogIdle

BuildCommand ==
    /\ call.fn = "_build_command" /\ ret = Pending
    /\ ret' = _build_command(call.arg)
    /\ UNCHANGED <<call, wrapVars, logVars>>

BuildTest ==
    /\ call.fn = "_build_test" /\ ret = Pending
    /\ ret' = _build_test(call.arg)
    /\ UNCHANGED <<call, wrapVars, logVars>>

BuildSuite ==
    /\ call.fn = "_build_suite" /\ ret = Pending
    /\ ret' = _build_suite(call.arg)
    /\ UNCHANGED <<call, wrapVars, logVars>>

LoadSideProject ==
    /\ call.fn = "load_side_project" /\ ret = Pending
    /\ ret' = load_side_project(call.arg, call.default_name)
    /\ UNCHANGED <<call, wrapVars, logVars>>

Next == BuildCommand \/ BuildTest \/ BuildSuite \/ LoadSideProject

Spec == Init /\ [][Next]_vars

----------------------------------------------------------------------------
(* Calls of a function decorated with log_method_call *)

MaxArgs == 2
MaxKwargs == 1

\* Argument objects: two whose repr is fine, one whose __repr__ raises.
ArgObjects ==
    {[name |-> "a", repr_raises |-> FALSE],
     [name |-> "b", repr_raises |-> FALSE],
     [name |-> "self", repr_raises |-> TRUE]}

\* What the original function does: return a value (its repr short, long or
\* raising) or raise (an Exception, one whose __str__ raises, or a
\* BaseException that is no Exception).
Bodies ==
    {Ok([name |-> "r", repr_len |-> n, repr_raises |-> FALSE]) : n \in {4, TruncateAt, TruncateAt + 1}} \cup
    {Ok([name |-> "r", repr_len |-> 0, repr_raises |-> TRUE])} \cup
    {Raise([type |-> "ValueError", is_exception |-> TRUE, str_raises |-> FALSE]),
     Raise([type |-> "BrokenError", is_exception |-> TRUE, str_raises |-> TRUE]),
     Raise([type |-> "KeyboardInterrupt", is_exception |-> FALSE, str_raises |-> FALSE])}

\* co_flags of a plain function (3), a generator function (35), a coroutine
\* function (131) and an async generator function (515); a callable object
\* has no __code__.
Functions ==
    {[has_code |-> TRUE, co_flags |-> f, body |-> b] : f \in {3, 35, 131, 515}, b \in Bodies} \cup
    {[has_code |-> FALSE, co_flags |-> 0, body |-> b] : b \in Bodies}

WrappedCalls ==
    {[fn |-> log_method_call(f), func |-> f, args |-> as, kwargs |-> ks, debug |-> d] :
        f \in Functions,
        as \in SeqsUpTo(ArgObjects, MaxArgs),
        ks \in SeqsUpTo({[k |-> "key", v |-> o] : o \in ArgObjects}, MaxKwargs),
        d \in BOOLEAN}

InitWrap ==
    /\ wcall \in WrappedCalls
    /\ invocations = <<>>
    /\ wret = WrapPending
    /\ records = <<>>
    /\ LoaderIdle /\ LogIdle

Wrapper ==
    /\ wcall.fn = "wrapper" /\ wret = WrapPending
    /\ LET r == wrapper(wcall)
       IN  /\ wret' = r.ret
           /\ invocations' = r.invocations
           /\ records' = r.records
    /\ UNCHANGED <<wcall, loaderVars, logVars>>

AsyncWrapper ==
    /\ wcall.fn = "async_wrapper" /\ wret = WrapPending
    /\ LET r == async_wrapper(wcall)
       IN  /\ wret' = r.ret
           /\ invocations' = r.invocations
           /\ records' = r.records
    /\ UNCHANGED <<wcall, loaderVars, logVars>>

NextWrap == Wrapper \/ AsyncWrapper

SpecWrap == InitWrap /\ [][NextWrap]_vars

----------------------------------------------------------------------------
(* The process's loggers under setup_logging *)

MaxCalls == 3
MaxLibItems == 2

\* The items of LOG_LEVEL_LIBRARIES between its commas, stripped.
LibItems ==
    {[colon |-> TRUE, name |-> "selenium", level |-> "DEBUG"],
     [colon |-> TRUE, name |-> "myapp", level |-> "loud"],
     [colon |-> TRUE, name |-> "myapp", level |-> "BASIC_FORMAT"],
     [colon |-> TRUE, name |-> "", level |-> "DEBUG"],
     [colon |-> FALSE, name |-> "urllib3", level |-> ""]}

\* The environments a call may find.
Environments ==
    {[k \in ks |-> CASE k = "LOG_DIR" -> "/srv/logs"
                     [] k = "LOG_LEVEL" -> lv
                     [] k = "LOG_LEVEL_LIBRARIES" -> items] :
        ks \in SUBSET {"LOG_DIR", "LOG_LEVEL", "LOG_LEVEL_LIBRARIES"},
        lv \in {"debug", "WARNING", "verbose", "basic_format"},
        items \in SeqsUpTo(LibItems, MaxLibItems) \ {<<>>}}

\* The log_dir argument; "None" is the argument left out.
LogDirs == {"None", "/var/log/app", "/etc/passwd", "/ro"}

\* A handler some other code attached to the root logger.
ForeignHandler == [cls |-> "NullHandler", level |-> 0, created_by |-> 0, dir |-> ""]

InitLogging ==
    /\ root \in {[level |-> WARNING, propagate |-> TRUE, handlers |-> hs] :
                    hs \in {<<>>, <<ForeignHandler>>}}
    /\ loggers = [n \in LibNames |-> [level |-> 0, propagate |-> TRUE]]
    /\ callNo = 0
    /\ lastCall = "none"
    /\ LoaderIdle /\ WrapIdle

SetupLogging ==
    /\ callNo < MaxCalls
    /\ \E log_dir \in LogDirs, env \in Environments :
          LET st == setup_logging([root |-> root, loggers |-> loggers, raised |-> ""],
                                  log_dir, env, callNo + 1)
          IN  /\ root' = st.root
              /\ loggers' = st.loggers
              /\ lastCall' = IF st.raised = "" THEN "returned" ELSE "raised"
    /\ callNo' = callNo + 1
    /\ UNCHANGED <<loaderVars, wrapVars>>

\* Other code attaches its handler to the root logger: addHandler skips a
\* handler the logger already holds.
ForeignAddHandler ==
    /\ \A i \in 1..Len(root.handlers) : root.handlers[i] # ForeignHandler
    /\ root' = [root EXCEPT !.handlers = Append(@, ForeignHandler)]
    /\ lastCall' = "foreign"
    /\ UNCHANGED <<loggers, callNo, loaderVars, wrapVars>>

NextLogging == SetupLogging \/ ForeignAddHandler

SpecLogging == InitLogging /\ [][NextLogging]_vars

----------------------------------------------------------------------------
(* Claims about the loader *)

Loaded == call.fn = "load_side_project" /\ ret # Pending
LoadedOk == Loaded /\ ret.ok

\* The parsed document of a load_side_project call and its raw lists.
RawProject == call.arg.doc
RawList(d, key) == IF key \in DOMAIN d.f THEN d.f[key].items ELSE <<>>
RawField(d, key) == IF key \in DOMAIN d.f THEN d.f[key] ELSE Str("")
IsRecordList(d, key) ==
    key \in DOMAIN d.f =>
        /\ d.f[key].t = "list"
        /\ \A i \in 1..Len(d.f[key].items) : d.f[key].items[i].t = "dict"

\* C1: the tests map of a loaded project has exactly the ids of the raw
\* tests as its keys, and each key maps to the Test built from the last raw
\* test that carries the id.
C1_TestMapLastWins ==
    (LoadedOk /\ IsRecordList(RawProject, "tests")) =>
        LET raws == RawList(RawProject, "tests")
            ids == {RawField(raws[i], "id") : i \in 1..Len(raws)}
        IN  /\ DOMAIN ret.v.tests = ids
            /\ \A k \in ids :
                 \E i \in 1..Len(raws) :
                    /\ RawField(raws[i], "id") = k
                    /\ \A j \in (i + 1)..Len(raws) : RawField(raws[j], "id") # k
                    /\ ret.v.tests[k] = _build_test(raws[i]).v

\* Two raw tests that differ share an id and the map holds one entry, the second.
C1_Witness ==
    /\ LoadedOk /\ IsRecordList(RawProject, "tests")
    /\ Len(RawList(RawProject, "tests")) = 2
    /\ LET raws == RawList(RawProject, "tests")
       IN  /\ RawField(raws[1], "id") = RawField(raws[2], "id")
           /\ RawField(raws[1], "name") # RawField(raws[2], "name")
           /\ Cardinality(DOMAIN ret.v.tests) = 1
           /\ ret.v.tests[RawField(raws[2], "id")].name = RawField(raws[2], "name")

\* The string-typed fields of the built values.
CommandStrings(c) == {c.id, c.command, c.target, c.value}
TestStrings(t) == {t.id, t.name} \cup UNION {CommandStrings(t.commands[i]) : i \in 1..Len(t.commands)}
SuiteStrings(s) == {s.id, s.name}
ProjectStrings(p) ==
    {p.id, p.name}
      \cup UNION {TestStrings(p.tests[k]) : k \in DOMAIN p.tests}
      \cup UNION {SuiteStrings(p.suites[i]) : i \in 1..Len(p.suites)}

\* C2: no string-typed field of a returned Project (or of its tests, commands
\* and suites) is null.
C2_NoNullString ==
    LoadedOk => Null \notin ProjectStrings(ret.v)

\* C3: every text argument that is well-formed JSON yields a Project.
C3_ValidJsonNeverRaises ==
    (Loaded /\ call.arg.pytype = "str" /\ call.arg.wellformed) => ret.ok

\* C4 as stated: the raw name if present and non-empty, else the default
\* name if one was supplied (the empty string included), else the literal.
C4_NameAnySuppliedDefault ==
    LoadedOk =>
        ret.v.name =
            IF "name" \in DOMAIN RawProject.f /\ Truthy(RawProject.f.name)
            THEN RawProject.f.name
            ELSE IF call.default_name # Null THEN call.default_name
            ELSE Str("Unnamed Project")

\* C4 amended: the raw name if present and non-empty, else the default name
\* if one was supplied and is non-empty, else the literal.
C4_NameResolution ==
    LoadedOk =>
        ret.v.name =
            IF "name" \in DOMAIN RawProject.f /\ Truthy(RawProject.f.name)
            THEN RawProject.f.name
            ELSE IF call.default_name # Null /\ call.default_name # Str("")
            THEN call.default_name
            ELSE Str("Unnamed Project")

\* An empty raw name gives way to the supplied default name.
C4_Witness ==
    /\ LoadedOk
    /\ "name" \in DOMAIN RawProject.f /\ RawProject.f.name = Str("")
    /\ call.default_name = Str("Fallback")
    /\ ret.v.name = Str("Fallback")

\* What the claim C5 says of one of the two fields.
FalsyToEmpty(raw, key, built) ==
    /\ (key \notin DOMAIN raw.f \/ ~Truthy(raw.f[key])) => built = Str("")
    /\ (key \in DOMAIN raw.f /\ raw.f[key].t = "str" /\ raw.f[key].s # "") => built = raw.f[key]

\* C5: a built Command's target (and value) is "" when the raw field is
\* omitted, null, "" or otherwise falsy, and is the raw value when that is a
\* non-empty string, whatever the other keys hold.
C5_FalsyToEmpty ==
    (call.fn = "_build_command" /\ ret # Pending) =>
        /\ ret.ok
        /\ FalsyToEmpty(call.arg, "target", ret.v.target)
        /\ FalsyToEmpty(call.arg, "value", ret.v.value)

\* A null target beside a non-empty value: the one collapses, the other stays.
C5_Witness ==
    /\ call.fn = "_build_command" /\ ret # Pending /\ ret.ok
    /\ "target" \in DOMAIN call.arg.f /\ call.arg.f.target = Null
    /\ "value" \in DOMAIN call.arg.f /\ call.arg.f.value = Str("x")
    /\ ret.v.target = Str("") /\ ret.v.value = Str("x")

\* A raw suite lists its identifiers.
IsIdList(d) == "tests" \in DOMAIN d.f /\ d.f.tests.t = "list"

\* A parsed document of the shape the loader's annotations name: an object
\* whose tests are records with string or null ids and lists of command
\* records, and whose suites are records that list identifiers.
WellTypedProject(d) ==
    /\ d.t = "dict"
    /\ IsRecordList(d, "tests")
    /\ \A i \in 1..Len(RawList(d, "tests")) :
          LET t == RawList(d, "tests")[i]
          IN  /\ RawField(t, "id").t \in {"str", "null"}
              /\ IsRecordList(t, "commands")
    /\ IsRecordList(d, "suites")
    /\ \A i \in 1..Len(RawList(d, "suites")) :
          LET u == RawList(d, "suites")[i]
          IN  "tests" \in DOMAIN u.f => u.f.tests.t = "list"

\* C6: a built Suite's tests are the raw list, element for element; a
\* project whose suites name ids that are no test loads, and its tests map
\* has the ids of the raw tests as keys and no other.
C6_SuiteTestsVerbatim ==
    /\ (call.fn = "_build_suite" /\ ret # Pending /\ IsIdList(call.arg)) =>
          ret.ok /\ ret.v.tests = call.arg.f.tests.items
    /\ (Loaded /\ call.arg.pytype = "str" /\ call.arg.wellformed
          /\ WellTypedProject(RawProject)) =>
          LET raws == RawList(RawProject, "suites")
              tests == RawList(RawProject, "tests")
          IN  /\ ret.ok
              /\ Len(ret.v.suites) = Len(raws)
              /\ \A i \in 1..Len(raws) :
                    IsIdList(raws[i]) => ret.v.suites[i].tests = raws[i].f.tests.items
              /\ DOMAIN ret.v.tests = {RawField(tests[i], "id") : i \in 1..Len(tests)}

\* A suite names t1 and an id that is no test; the load succeeds and the
\* tests map has no entry for that id.
C6_Witness ==
    /\ LoadedOk /\ WellTypedProject(RawProject)
    /\ Len(RawList(RawProject, "suites")) >= 1
    /\ IsIdList(RawList(RawProject, "suites")[1])
    /\ RawList(RawProject, "suites")[1].f.tests.items = <<Str("t1"), Str("missing")>>
    /\ ret.v.suites[1].tests = <<Str("t1"), Str("missing")>>
    /\ DOMAIN ret.v.tests = {Str("t1")}

\* C7: an argument that is not a str raises TypeError, whatever it holds;
\* a str that is not JSON raises the parser's error; neither returns a Project.
C7_InputErrors ==
    Loaded =>
        /\ call.arg.pytype # "str" => ret = Raise("TypeError")
        /\ (call.arg.pytype = "str" /\ ~call.arg.wellformed) => ret = Raise("JSONDecodeError")

\* Bytes holding a well-formed document are rejected for their type.
C7_Witness ==
    /\ Loaded
    /\ call.arg.pytype = "bytes" /\ call.arg.wellformed
    /\ ret = Raise("TypeError")

\* C8: a built Test's commands are the raw commands built one by one in
\* order (none when the key is missing); a Project's suites are the raw
\* suites built one by one in order (none when missing), and a project
\* without tests has an empty tests map.
C8_OrderPreserved ==
    /\ (call.fn = "_build_test" /\ ret # Pending) =>
          LET raws == RawList(call.arg, "commands")
          IN  /\ ret.ok
              /\ Len(ret.v.commands) = Len(raws)
              /\ \A i \in 1..Len(raws) : ret.v.commands[i] = _build_command(raws[i]).v
    /\ (LoadedOk /\ IsRecordList(RawProject, "suites")) =>
          LET raws == RawList(RawProject, "suites")
          IN  /\ Len(ret.v.suites) = Len(raws)
              /\ \A i \in 1..Len(raws) : ret.v.suites[i] = _build_suite(raws[i]).v
              /\ "tests" \notin DOMAIN RawProject.f => DOMAIN ret.v.tests = {}

\* A test built from two different raw commands holds them in the raw order.
C8_Witness ==
    /\ call.fn = "_build_test" /\ ret # Pending /\ ret.ok
    /\ Len(RawList(call.arg, "commands")) = 2
    /\ Len(ret.v.commands) = 2
    /\ ret.v.commands[1] # ret.v.commands[2]
    /\ ret.v.commands[1].id = RawField(RawList(call.arg, "commands")[1], "id")

----------------------------------------------------------------------------
(* Claims about logger_config *)

\* C9: a wrapped call invokes the original function exactly once with the
\* arguments it was given, and returns what the original returns or raises
\* what it raises, whether DEBUG logging is enabled or not.
C9_WrapperTransparent ==
    wret # WrapPending =>
        /\ invocations = <<Invocation(wcall)>>
        /\ wret = wcall.func.body

\* C10: after a setup_logging call that returned, the root logger holds
\* exactly a file handler and a console handler, both made by that call and
\* both at the root logger's level.
C10_TwoHandlersAtRootLevel ==
    lastCall = "returned" =>
        /\ Len(root.handlers) = 2
        /\ root.handlers[1].cls = "FileHandler"
        /\ root.handlers[2].cls = "StreamHandler"
        /\ \A i \in 1..2 :
              /\ root.handlers[i].created_by = callNo
              /\ root.handlers[i].level = root.level

====
